---- MODULE Spec2Model ----
(***************************************************************************)
(* Pujiverse Voice Studio: the raw-PCM <-> WAV codec (decode,              *)
(* decodeAudioData, encodeWAV, floatTo16BitPCM) and the SpeechGenerator    *)
(* component that drives it (handleGenerateSpeech, handleSelectApiKey,     *)
(* the mount effect, the download-URL cleanup effect).                     *)
(*                                                                         *)
(* Numbers.  A JavaScript number that the codec handles is modelled as an  *)
(* exact fraction [num, den]; every value that occurs (an int16 divided by *)
(* 32768, the clamp limits -1 and 1, a product with 0x7FFF or 0x8000) is   *)
(* exactly representable in a Float32Array and in a double, so the exact   *)
(* arithmetic below is the arithmetic the code performs.  NaN is the       *)
(* fraction with denominator 0.                                            *)
(***************************************************************************)
EXTENDS Integers, Sequences, FiniteSets, TLC

VARIABLES
    \* ---- codec pipeline values ----
    codecPc,        \* "idle" | "bytes" | "buffer" | "decoded" | "wav" | "RangeError"
    data,           \* Uint8Array handed to decodeAudioData
    numChannels,    \* numChannels argument of decodeAudioData
    sampleRate,     \* sampleRate argument of decodeAudioData
    audioBuffer,    \* the AudioBuffer (or NoBuffer)
    wavBytes,       \* the bytes of the WAV Blob (or << >>)
    \* ---- the host and the SpeechGenerator component ----
    aistudio,           \* which functions window.aistudio provides
    mounted,            \* the component is mounted
    scriptBlank,        \* !script.trim()
    hasApiKeySelected,  \* useState
    loading,            \* useState
    error,              \* useState: NoError (null) or a message
    downloadUrl,        \* useState: 0 (null) or an object URL
    sourceNodeRef,      \* useRef: 0 (null) or a buffer source
    audioContextRef,    \* useRef: an AudioContext has been created
    checkPc,            \* mount effect checkApiKey: "start" | "await" | "done"
    selectPending,      \* handleSelectApiKey calls awaiting openSelectKey
    genPc,              \* handleGenerateSpeech: "idle" | "awaitRemote" | "awaitOpenSelectKey"
    genCount,           \* generation requests issued so far
    base64Audio,        \* what generateSpeech returned to the running request
    created,            \* object URLs created with URL.createObjectURL
    revoked,            \* object URLs revoked with URL.revokeObjectURL
    started,            \* buffer sources started
    stopped             \* buffer sources stopped and disconnected

codecVars == <<codecPc, data, numChannels, sampleRate, audioBuffer, wavBytes>>

uiVars == <<aistudio, mounted, scriptBlank, hasApiKeySelected, loading, error,
            downloadUrl, sourceNodeRef, audioContextRef, checkPc, selectPending,
            genPc, genCount, base64Audio, created, revoked, started, stopped>>

vars == <<codecVars, uiVars>>

-----------------------------------------------------------------------------
(* Bounds and input sets *)

MaxSamples == 4
MaxFrames == 2
MaxGenerations == 3
MaxPendingSelect == 2

\* 16-bit little-endian words: -32768, 32767, 127, -1
SampleWords == {<<0, 128>>, <<255, 127>>, <<127, 0>>, <<255, 255>>}
\* a trailing odd byte, when there is one
OddBytes == {0, 255}
ChannelCounts == {1, 2, 3}
SampleRates == {24000, 96000}

-----------------------------------------------------------------------------
(* Numbers *)

F(n, d) == [num |-> n, den |-> d]

NaN == F(0, 0)

\* samples given directly to the encoder: below -1, exactly 1, above 1
SampleValues == {F(-3, 2), F(1, 1), F(2, 1)}

\* a < b on fractions with positive denominators; any comparison with NaN is false
Less(a, b) ==
    /\ a.den # 0
    /\ b.den # 0
    /\ a.num * b.den < b.num * a.den

\* Math.min(a, b), Math.max(a, b): NaN if either argument is NaN
MathMin(a, b) == IF a.den = 0 \/ b.den = 0 THEN NaN ELSE IF Less(b, a) THEN b ELSE a

MathMax(a, b) == IF a.den = 0 \/ b.den = 0 THEN NaN ELSE IF Less(a, b) THEN b ELSE a

\* x * k for an integer constant k
Times(x, k) == F(x.num * k, x.den)

\* ToIntegerOrInfinity: NaN -> 0, otherwise truncate toward zero
Truncate(x) ==
    IF x.den = 0 THEN 0
    ELSE IF x.num >= 0 THEN x.num \div x.den
    ELSE -((-x.num) \div x.den)

\* ToInt16 of DataView.setInt16: truncate, then wrap modulo 2^16 into [-2^15, 2^15)
ToInt16(x) ==
    LET m == Truncate(x) % 65536
    IN  IF m >= 32768 THEN m - 65536 ELSE m

\* ToUint16 of DataView.setUint16 (integer argument)
ToUint16(v) == v % 65536

-----------------------------------------------------------------------------
(* Binary writer helpers *)

\* view.setUint8 for each character of a four-character tag (char codes)
writeString(s) ==
    CASE s = "RIFF" -> <<82, 73, 70, 70>>
      [] s = "WAVE" -> <<87, 65, 86, 69>>
      [] s = "fmt " -> <<102, 109, 116, 32>>
      [] s = "data" -> <<100, 97, 116, 97>>

\* view.setUint32(offset, v, true): four bytes, least significant first
setUint32(v) ==
    <<v % 256, (v \div 256) % 256, (v \div 65536) % 256, (v \div 16777216) % 256>>

\* view.setUint16(offset, v, true)
setUint16(v) == <<ToUint16(v) % 256, ToUint16(v) \div 256>>

\* view.setInt16(offset, x, true): two's complement, least significant first
setInt16(x) ==
    LET u == ToInt16(x) % 65536
    IN  <<u % 256, u \div 256>>

-----------------------------------------------------------------------------
(* PCM interpreter: decodeAudioData *)

NoBuffer == [numberOfChannels |-> 0, sampleRate |-> 0, length |-> 0, channels |-> << >>]

\* new Int16Array(data.buffer) throws a RangeError unless the byte length is even
Int16ArrayThrows(bytes) == Len(bytes) % 2 # 0

\* the view read as unsigned 16-bit values (a Uint16Array in place of the Int16Array)
Uint16ArrayOf(bytes) ==
    [k \in 1..(Len(bytes) \div 2) |-> bytes[2 * k - 1] + 256 * bytes[2 * k]]

\* element k (1-based) of the Int16Array view: little-endian, signed
Int16ArrayOf(bytes) ==
    [k \in 1..(Len(bytes) \div 2) |->
        LET u == bytes[2 * k - 1] + 256 * bytes[2 * k]
        IN  IF u >= 32768 THEN u - 65536 ELSE u]

\* dataInt16[idx] / 32768.0 ; an index past the end reads undefined, giving NaN
SampleAt(dataInt16, idx) ==
    IF idx < Len(dataInt16) THEN F(dataInt16[idx + 1], 32768) ELSE NaN

\* channelData[idx] = v ; a typed-array store past the end is ignored
TypedArrayStore(arr, idx, v) ==
    IF idx < Len(arr) THEN [arr EXCEPT ![idx + 1] = v] ELSE arr

\* ctx.createBuffer(numChannels, frameCount, sampleRate): frameCount is converted
\* to an unsigned long (truncated); the channels start zero-filled.  The context is
\* the caller's; it is taken to allocate any requested length, zero included.
createBuffer(nc, sampleCount, rate) ==
    LET len == sampleCount \div nc
    IN  [numberOfChannels |-> nc, sampleRate |-> rate, length |-> len,
         channels |-> [c \in 1..nc |-> [i \in 1..len |-> F(0, 1)]]]

\* the loop reading the stream as planar (channel after channel) instead of interleaved
RECURSIVE ChannelLoopPlanar(_, _, _, _, _)
ChannelLoopPlanar(channelData, dataInt16, nc, channel, i) ==
    IF i * nc < Len(dataInt16)
    THEN ChannelLoopPlanar(
            TypedArrayStore(channelData, i,
                SampleAt(dataInt16, channel * (Len(dataInt16) \div nc) + i)),
            dataInt16, nc, channel, i + 1)
    ELSE channelData

\* the inner loop: for (i = 0; i < frameCount; i++), frameCount = length / numChannels
\* (not truncated), so the test is i * numChannels < dataInt16.length
RECURSIVE ChannelLoop(_, _, _, _, _)
ChannelLoop(channelData, dataInt16, nc, channel, i) ==
    IF i * nc < Len(dataInt16)
    THEN ChannelLoop(
            TypedArrayStore(channelData, i, SampleAt(dataInt16, i * nc + channel)),
            dataInt16, nc, channel, i + 1)
    ELSE channelData

decodeAudioData(bytes, rate, nc) ==
    LET dataInt16 == Int16ArrayOf(bytes)
        buffer == createBuffer(nc, Len(dataInt16), rate)
    IN  [buffer EXCEPT !.channels =
            [c \in 1..nc |-> ChannelLoop(buffer.channels[c], dataInt16, nc, c - 1, 0)]]

-----------------------------------------------------------------------------
(* WAV encoder: encodeWAV, floatTo16BitPCM *)

bitsPerSample == 16

\* the flat float sequence: L/R interleaved for two channels, else channel 0
Interleaved(buf) ==
    IF buf.numberOfChannels = 2
    THEN LET L == buf.channels[1]
             R == buf.channels[2]
         IN  [k \in 1..(Len(L) + Len(R)) |->
                 IF k % 2 = 1 THEN L[(k + 1) \div 2] ELSE R[k \div 2]]
    ELSE buf.channels[1]

\* Math.round: the nearest integer, a tie going up
MathRound(x) == F((2 * x.num + x.den) \div (2 * x.den), 1)

\* the conversion with an explicit Math.round before the store
SampleToPCMRounded(x) ==
    LET s == MathMax(F(-1, 1), MathMin(F(1, 1), x))
    IN  setInt16(MathRound(IF Less(s, F(0, 1)) THEN Times(s, 32768) ELSE Times(s, 32767)))

\* the conversion with the same scale 0x8000 for both signs
SampleToPCMSymmetric(x) ==
    LET s == MathMax(F(-1, 1), MathMin(F(1, 1), x))
    IN  setInt16(Times(s, 32768))

\* one sample: clamp to [-1, 1], scale by 0x8000 or 0x7FFF, setInt16
SampleToPCM(x) ==
    LET s == MathMax(F(-1, 1), MathMin(F(1, 1), x))
    IN  setInt16(IF Less(s, F(0, 1)) THEN Times(s, 32768) ELSE Times(s, 32767))

RECURSIVE floatTo16BitPCM(_)
floatTo16BitPCM(input) ==
    IF input = << >> THEN << >>
    ELSE SampleToPCM(Head(input)) \o floatTo16BitPCM(Tail(input))

\* the payload size counted in samples instead of bytes
DataLengthInSamples(interleaved) == Len(interleaved)

DataLength(interleaved) == Len(interleaved) * (bitsPerSample \div 8)

WavHeader(nc, rate, dataLength) ==
    writeString("RIFF") \o setUint32(36 + dataLength) \o writeString("WAVE")
    \o writeString("fmt ") \o setUint32(16) \o setUint16(1)
    \o setUint16(nc) \o setUint32(rate)
    \o setUint32(rate * nc * (bitsPerSample \div 8))
    \o setUint16(nc * (bitsPerSample \div 8)) \o setUint16(bitsPerSample)
    \o writeString("data") \o setUint32(dataLength)

\* new ArrayBuffer(44 + dataLength): zero-filled, then header and payload written
encodeWAV(buf) ==
    LET interleaved == Interleaved(buf)
        dataLength == DataLength(interleaved)
        written == WavHeader(buf.numberOfChannels, buf.sampleRate, dataLength)
                   \o floatTo16BitPCM(interleaved)
    IN  [k \in 1..(44 + dataLength) |-> IF k <= Len(written) THEN written[k] ELSE 0]

-----------------------------------------------------------------------------
(* The codec on its own: every input of the bounded sets, each function applied *)

RECURSIVE Flatten(_)
Flatten(words) == IF words = << >> THEN << >> ELSE Head(words) \o Flatten(Tail(words))

\* whole 16-bit words, then possibly one more byte
ByteSeqs ==
    LET wordSeqs == UNION {[1..n -> SampleWords] : n \in 0..MaxSamples}
        tails == {<< >>} \cup {<<b>> : b \in OddBytes}
    IN  {Flatten(ws) \o t : ws \in wordSeqs, t \in tails}

NoError == "null"

\* the component before it is rendered, with nothing requested
UiIdle ==
    /\ aistudio = [hasSelectedApiKey |-> FALSE, openSelectKey |-> FALSE]
    /\ mounted = FALSE
    /\ scriptBlank = TRUE
    /\ hasApiKeySelected = FALSE
    /\ loading = FALSE
    /\ error = NoError
    /\ downloadUrl = 0
    /\ sourceNodeRef = 0
    /\ audioContextRef = FALSE
    /\ checkPc = "done"
    /\ selectPending = 0
    /\ genPc = "idle"
    /\ genCount = 0
    /\ base64Audio = << >>
    /\ created = {}
    /\ revoked = {}
    /\ started = {}
    /\ stopped = {}

CodecInit ==
    /\ UiIdle
    /\ numChannels \in ChannelCounts
    /\ sampleRate \in SampleRates
    /\ wavBytes = << >>
    /\ \/ /\ codecPc = "bytes"
          /\ data \in ByteSeqs
          /\ audioBuffer = NoBuffer
       \/ /\ codecPc = "buffer"
          /\ data = << >>
          /\ \E len \in 0..MaxFrames :
                \E ch \in [1..numChannels -> [1..len -> SampleValues]] :
                   audioBuffer = [numberOfChannels |-> numChannels,
                                  sampleRate |-> sampleRate,
                                  length |-> len, channels |-> ch]

DecodeThrows ==
    /\ codecPc = "bytes"
    /\ Int16ArrayThrows(data)
    /\ codecPc' = "RangeError"
    /\ UNCHANGED <<data, numChannels, sampleRate, audioBuffer, wavBytes, uiVars>>

Decode ==
    /\ codecPc = "bytes"
    /\ ~Int16ArrayThrows(data)
    /\ audioBuffer' = decodeAudioData(data, sampleRate, numChannels)
    /\ codecPc' = "decoded"
    /\ UNCHANGED <<data, numChannels, sampleRate, wavBytes, uiVars>>

Encode ==
    /\ codecPc \in {"buffer", "decoded"}
    /\ wavBytes' = encodeWAV(audioBuffer)
    /\ codecPc' = "wav"
    /\ UNCHANGED <<data, numChannels, sampleRate, audioBuffer, uiVars>>

CodecNext == DecodeThrows \/ Decode \/ Encode

CodecSpec == CodecInit /\ [][CodecNext]_vars

-----------------------------------------------------------------------------
(* Base64 decoder: decode, on top of the host's atob *)

B64Chars ==
    <<"A", "B", "C", "D", "E", "F", "G", "H", "I", "J", "K", "L", "M",
      "N", "O", "P", "Q", "R", "S", "T", "U", "V", "W", "X", "Y", "Z",
      "a", "b", "c", "d", "e", "f", "g", "h", "i", "j", "k", "l", "m",
      "n", "o", "p", "q", "r", "s", "t", "u", "v", "w", "x", "y", "z",
      "0", "1", "2", "3", "4", "5", "6", "7", "8", "9", "+", "/">>

B64Alphabet == {B64Chars[i] : i \in 1..64}

B64Value(ch) == (CHOOSE i \in 1..64 : B64Chars[i] = ch) - 1

\* atob drops one or two trailing "=" when the length is a multiple of four
StripPadding(str) ==
    LET n == Len(str)
    IN  IF n % 4 = 0 /\ n >= 1 /\ str[n] = "="
        THEN IF n >= 2 /\ str[n - 1] = "=" THEN SubSeq(str, 1, n - 2)
             ELSE SubSeq(str, 1, n - 1)
        ELSE str

\* atob throws an InvalidCharacterError: a length of 1 modulo 4 after stripping,
\* or a character outside the base64 alphabet
AtobThrows(str) ==
    LET t == StripPadding(str)
    IN  \/ Len(t) % 4 = 1
        \/ \E i \in 1..Len(t) : t[i] \notin B64Alphabet

\* the binary string of atob, as its char codes: 6 bits per character, 3 bytes per
\* 4 characters; 2 left-over characters give 1 byte, 3 give 2 bytes
RECURSIVE AtobCodes(_)
AtobCodes(t) ==
    IF Len(t) >= 4
    THEN LET v == B64Value(t[1]) * 262144 + B64Value(t[2]) * 4096
                  + B64Value(t[3]) * 64 + B64Value(t[4])
         IN  <<v \div 65536, (v \div 256) % 256, v % 256>>
             \o AtobCodes(SubSeq(t, 5, Len(t)))
    ELSE IF Len(t) = 3
    THEN LET v == (B64Value(t[1]) * 4096 + B64Value(t[2]) * 64 + B64Value(t[3])) \div 4
         IN  <<v \div 256, v % 256>>
    ELSE IF Len(t) = 2
    THEN <<(B64Value(t[1]) * 64 + B64Value(t[2])) \div 16>>
    ELSE << >>

\* bytes[i] = binaryString.charCodeAt(i)
decode(base64) ==
    LET binaryString == AtobCodes(StripPadding(base64))
    IN  [i \in 1..Len(binaryString) |-> binaryString[i]]

\* what the remote service may return as inlineData.data (none of them holds
\* white space, which atob would skip):
\*   "AIA="      bytes 00 80           one sample, -32768
\*   "AAAAQA=="  bytes 00 00 00 40     two samples, 0 and 16384
\*   "AIA"       the same as "AIA=", without padding
\*   "AA=="      byte  00              odd length
\*   "AID/"      bytes 00 80 FF        odd length
\*   "AI!="      not base64
Responses ==
    { <<"A", "I", "A", "=">>,
      <<"A", "A", "A", "A", "Q", "A", "=", "=">>,
      <<"A", "I", "A">>,
      <<"A", "A", "=", "=">>,
      <<"A", "I", "D", "/">>,
      <<"A", "I", "!", "=">> }

-----------------------------------------------------------------------------
(* SpeechGenerator: state, effects and handlers *)

MsgNoKey == "An API Key must be selected before generating speech."
MsgUnavailable == "API key selection not available in this environment."
MsgKeyInvalid == "API key might be invalid or not selected."
MsgFailedNoAudio == "Failed to generate speech: No audio data received from the API."
MsgFailedNotFound == "Failed to generate speech: Requested entity was not found."
MsgFailedOther == "Failed to generate speech: Unknown error"

\* a state setter called after the component has unmounted changes nothing
SetState(cur, new) == IF mounted THEN new ELSE cur

\* the download button: disabled={loading || !script.trim() || !hasApiKeySelected}
GenerateEnabled == ~loading /\ ~scriptBlank /\ hasApiKeySelected

\* the "Select API Key" button is rendered only while no key is selected
SelectKeyShown == ~hasApiKeySelected

\* the URL-cleanup effect: the cleanup of the render that held `old` runs when
\* downloadUrl changes (or on unmount) and revokes `old`
CleanupRevokes(old, new) == IF old # 0 /\ old # new THEN {old} ELSE {}

\* the handler leaving the previous download URL in the state
KeptDownloadUrl(url) == url

\* setDownloadUrl(null) of the handler's first lines
ClearedDownloadUrl(url) == 0

\* the handler without the stop of the previous source
StopNothing(ref, stoppedNow) == stoppedNow

\* sourceNodeRef.current.stop(); .disconnect(): the sources stopped afterwards
StopCurrent(ref, stoppedNow) == IF ref # 0 THEN stoppedNow \cup {ref} ELSE stoppedNow

NoPipeline ==
    [pc |-> "idle", data |-> << >>, audioBuffer |-> NoBuffer, wavBytes |-> << >>,
     ctx |-> FALSE, source |-> FALSE, url |-> FALSE, error |-> NoError]

\* the try block after generateSpeech has returned, creating the download URL from
\* the decoded bytes before they are interpreted
PipelineUrlFirst(base64) ==
    IF AtobThrows(base64)
    THEN [NoPipeline EXCEPT !.pc = "InvalidCharacterError",
                            !.error = "InvalidCharacterError"]
    ELSE LET audioBytes == decode(base64)
         IN  IF Int16ArrayThrows(audioBytes)
             THEN [NoPipeline EXCEPT !.pc = "RangeError", !.data = audioBytes,
                                     !.ctx = TRUE, !.url = TRUE, !.error = "RangeError"]
             ELSE LET buf == decodeAudioData(audioBytes, 24000, 1)
                  IN  [pc |-> "wav", data |-> audioBytes, audioBuffer |-> buf,
                       wavBytes |-> encodeWAV(buf), ctx |-> TRUE, source |-> TRUE,
                       url |-> TRUE, error |-> NoError]

\* the try block after generateSpeech has returned: decode, getAudioContext,
\* decodeAudioData(audioBytes, audioContext, 24000, 1), start the source, encodeWAV,
\* createObjectURL; a throw leaves the later steps undone
Pipeline(base64) ==
    IF AtobThrows(base64)
    THEN [NoPipeline EXCEPT !.pc = "InvalidCharacterError",
                            !.error = "InvalidCharacterError"]
    ELSE LET audioBytes == decode(base64)
         IN  IF Int16ArrayThrows(audioBytes)
             THEN [NoPipeline EXCEPT !.pc = "RangeError", !.data = audioBytes,
                                     !.ctx = TRUE, !.error = "RangeError"]
             ELSE LET buf == decodeAudioData(audioBytes, 24000, 1)
                  IN  [pc |-> "wav", data |-> audioBytes, audioBuffer |-> buf,
                       wavBytes |-> encodeWAV(buf), ctx |-> TRUE, source |-> TRUE,
                       url |-> TRUE, error |-> NoError]

NextId(used) == Cardinality(used) + 1

Init ==
    /\ aistudio \in [hasSelectedApiKey : BOOLEAN, openSelectKey : BOOLEAN]
    /\ mounted = TRUE
    /\ scriptBlank = TRUE
    /\ hasApiKeySelected = FALSE
    /\ loading = FALSE
    /\ error = NoError
    /\ downloadUrl = 0
    /\ sourceNodeRef = 0
    /\ audioContextRef = FALSE
    /\ checkPc = "start"
    /\ selectPending = 0
    /\ genPc = "idle"
    /\ genCount = 0
    /\ base64Audio = << >>
    /\ created = {}
    /\ revoked = {}
    /\ started = {}
    /\ stopped = {}
    /\ codecPc = "idle"
    /\ data = << >>
    /\ numChannels = 1
    /\ sampleRate = 24000
    /\ audioBuffer = NoBuffer
    /\ wavBytes = << >>

\* the mount effect has run: React flushes the effects of the first render
\* before it dispatches any user event to the component
MountEffectRan == checkPc # "start"

\* the mount effect, up to its await (or to its end when the host has no
\* hasSelectedApiKey)
CheckApiKeyEffect ==
    /\ mounted
    /\ checkPc = "start"
    /\ IF aistudio.hasSelectedApiKey
       THEN checkPc' = "await" /\ UNCHANGED hasApiKeySelected
       ELSE checkPc' = "done" /\ hasApiKeySelected' = TRUE
    /\ UNCHANGED <<codecVars, aistudio, mounted, scriptBlank, loading, error,
                   downloadUrl, sourceNodeRef, audioContextRef, selectPending, genPc,
                   genCount, base64Audio, created, revoked, started, stopped>>

\* window.aistudio.hasSelectedApiKey() resolves
CheckApiKeyResolves ==
    /\ checkPc = "await"
    /\ \E hasKey \in BOOLEAN : hasApiKeySelected' = SetState(hasApiKeySelected, hasKey)
    /\ checkPc' = "done"
    /\ UNCHANGED <<codecVars, aistudio, mounted, scriptBlank, loading, error,
                   downloadUrl, sourceNodeRef, audioContextRef, selectPending, genPc,
                   genCount, base64Audio, created, revoked, started, stopped>>

\* the script textarea (disabled while no key is selected)
SetScript ==
    /\ mounted
    /\ MountEffectRan
    /\ hasApiKeySelected
    /\ scriptBlank' = ~scriptBlank
    /\ UNCHANGED <<codecVars, aistudio, mounted, hasApiKeySelected, loading, error,
                   downloadUrl, sourceNodeRef, audioContextRef, checkPc, selectPending,
                   genPc, genCount, base64Audio, created, revoked, started, stopped>>

\* handleSelectApiKey, up to its await (or to its end when the host has no
\* openSelectKey)
SelectApiKey ==
    /\ mounted
    /\ MountEffectRan
    /\ SelectKeyShown
    /\ IF aistudio.openSelectKey
       THEN /\ selectPending < MaxPendingSelect
            /\ selectPending' = selectPending + 1
            /\ UNCHANGED error
       ELSE /\ error' = MsgUnavailable
            /\ UNCHANGED selectPending
    /\ UNCHANGED <<codecVars, aistudio, mounted, scriptBlank, hasApiKeySelected,
                   loading, downloadUrl, sourceNodeRef, audioContextRef, checkPc,
                   genPc, genCount, base64Audio, created, revoked, started, stopped>>

\* handleSelectApiKey after openSelectKey() has resolved
SelectApiKeyResolves ==
    /\ selectPending > 0
    /\ selectPending' = selectPending - 1
    /\ hasApiKeySelected' = SetState(hasApiKeySelected, TRUE)
    /\ error' = SetState(error, NoError)
    /\ UNCHANGED <<codecVars, aistudio, mounted, scriptBlank, loading, downloadUrl,
                   sourceNodeRef, audioContextRef, checkPc, genPc, genCount,
                   base64Audio, created, revoked, started, stopped>>

\* handleGenerateSpeech from the click to the await inside generateSpeech
Generate ==
    /\ mounted
    /\ MountEffectRan
    /\ GenerateEnabled
    /\ genCount < MaxGenerations
    /\ IF ~hasApiKeySelected
       THEN /\ error' = MsgNoKey
            /\ UNCHANGED <<codecVars, loading, downloadUrl, sourceNodeRef, genPc,
                           genCount, base64Audio, revoked, stopped>>
       ELSE /\ error' = NoError
            /\ downloadUrl' = IF downloadUrl # 0 THEN ClearedDownloadUrl(downloadUrl)
                              ELSE downloadUrl
            /\ revoked' = revoked \cup (IF downloadUrl # 0 THEN {downloadUrl} ELSE {})
                                  \cup CleanupRevokes(downloadUrl, downloadUrl')
            /\ loading' = TRUE
            /\ stopped' = StopCurrent(sourceNodeRef, stopped)
            /\ sourceNodeRef' = 0
            /\ genPc' = "awaitRemote"
            /\ genCount' = genCount + 1
            /\ base64Audio' = << >>
            /\ codecPc' = "idle"
            /\ data' = << >>
            /\ audioBuffer' = NoBuffer
            /\ wavBytes' = << >>
            /\ UNCHANGED <<numChannels, sampleRate>>
    /\ UNCHANGED <<aistudio, mounted, scriptBlank, hasApiKeySelected, audioContextRef,
                   checkPc, selectPending, created, started>>

\* the catch and finally blocks of handleGenerateSpeech for a thrown Error
CatchAndFinally(message) ==
    /\ error' = SetState(error, message)
    /\ hasApiKeySelected' =
          IF message = MsgKeyInvalid THEN SetState(hasApiKeySelected, FALSE)
          ELSE hasApiKeySelected
    /\ loading' = SetState(loading, FALSE)
    /\ genPc' = "idle"

\* generateSpeech returns the audio; the rest of the try block runs
RemoteReturnsAudio ==
    /\ genPc = "awaitRemote"
    /\ \E b64 \in Responses :
          LET p == Pipeline(b64)
              source == NextId(started)
              url == NextId(created)
          IN  /\ base64Audio' = b64
              /\ codecPc' = p.pc
              /\ data' = p.data
              /\ audioBuffer' = p.audioBuffer
              /\ wavBytes' = p.wavBytes
              /\ audioContextRef' = (audioContextRef \/ p.ctx)
              /\ started' = IF p.source THEN started \cup {source} ELSE started
              /\ sourceNodeRef' = IF p.source THEN source ELSE sourceNodeRef
              /\ created' = IF p.url THEN created \cup {url} ELSE created
              /\ downloadUrl' = IF p.url THEN SetState(downloadUrl, url) ELSE downloadUrl
              /\ revoked' = revoked \cup
                    (IF mounted THEN CleanupRevokes(downloadUrl, downloadUrl') ELSE {})
              /\ IF p.error = NoError
                 THEN /\ loading' = SetState(loading, FALSE)
                      /\ genPc' = "idle"
                      /\ UNCHANGED <<error, hasApiKeySelected>>
                 ELSE CatchAndFinally(p.error)
    /\ UNCHANGED <<numChannels, sampleRate, aistudio, mounted, scriptBlank, checkPc,
                   selectPending, genCount, stopped>>

\* the response carries no audio data: generateSpeech throws, catches and rethrows
RemoteReturnsNoAudio ==
    /\ genPc = "awaitRemote"
    /\ CatchAndFinally(MsgFailedNoAudio)
    /\ UNCHANGED <<codecVars, aistudio, mounted, scriptBlank, downloadUrl,
                   sourceNodeRef, audioContextRef, checkPc, selectPending, genCount,
                   base64Audio, created, revoked, started, stopped>>

\* generateContent rejects with "Requested entity was not found."
RemoteRejectsNotFound ==
    /\ genPc = "awaitRemote"
    /\ IF aistudio.openSelectKey
       THEN /\ genPc' = "awaitOpenSelectKey"
            /\ UNCHANGED <<error, hasApiKeySelected, loading>>
       ELSE CatchAndFinally(MsgFailedNotFound)
    /\ UNCHANGED <<codecVars, aistudio, mounted, scriptBlank, downloadUrl,
                   sourceNodeRef, audioContextRef, checkPc, selectPending, genCount,
                   base64Audio, created, revoked, started, stopped>>

\* generateContent rejects with any other error
RemoteRejects ==
    /\ genPc = "awaitRemote"
    /\ CatchAndFinally(MsgFailedOther)
    /\ UNCHANGED <<codecVars, aistudio, mounted, scriptBlank, downloadUrl,
                   sourceNodeRef, audioContextRef, checkPc, selectPending, genCount,
                   base64Audio, created, revoked, started, stopped>>

\* openSelectKey() inside generateSpeech's catch resolves; the key error is thrown
OpenSelectKeyResolves ==
    /\ genPc = "awaitOpenSelectKey"
    /\ CatchAndFinally(MsgKeyInvalid)
    /\ UNCHANGED <<codecVars, aistudio, mounted, scriptBlank, downloadUrl,
                   sourceNodeRef, audioContextRef, checkPc, selectPending, genCount,
                   base64Audio, created, revoked, started, stopped>>

\* the component unmounts: the URL-cleanup effect's cleanup runs; pending promises
\* still settle afterwards
Unmount ==
    /\ mounted
    /\ mounted' = FALSE
    /\ revoked' = revoked \cup CleanupRevokes(downloadUrl, 0)
    /\ UNCHANGED <<codecVars, aistudio, scriptBlank, hasApiKeySelected, loading, error,
                   downloadUrl, sourceNodeRef, audioContextRef, checkPc, selectPending,
                   genPc, genCount, base64Audio, created, started, stopped>>

Next ==
    \/ CheckApiKeyEffect
    \/ CheckApiKeyResolves
    \/ SetScript
    \/ SelectApiKey
    \/ SelectApiKeyResolves
    \/ Generate
    \/ RemoteReturnsAudio
    \/ RemoteReturnsNoAudio
    \/ RemoteRejectsNotFound
    \/ RemoteRejects
    \/ OpenSelectKeyResolves
    \/ Unmount

Spec == Init /\ [][Next]_vars

-----------------------------------------------------------------------------
(* Reading a WAV back, and the samples an AudioBuffer is expected to emit *)

ReadUint16(w, off) == w[off + 1] + 256 * w[off + 2]

ReadUint32(w, off) ==
    w[off + 1] + 256 * w[off + 2] + 65536 * w[off + 3] + 16777216 * w[off + 4]

ReadInt16(w, off) ==
    IF w[off + 2] >= 128 THEN ReadUint16(w, off) - 65536 ELSE ReadUint16(w, off)

\* number of samples the encoder emits: both channels of a stereo buffer,
\* channel 0 only for every other channel count
EmittedCount(buf) == IF buf.numberOfChannels = 2 THEN 2 * buf.length ELSE buf.length

\* emitted sample number i (from 0)
Emitted(buf, i) ==
    IF buf.numberOfChannels = 2
    THEN buf.channels[(i % 2) + 1][(i \div 2) + 1]
    ELSE buf.channels[1][i + 1]

\* the sample clamped to [-1, 1]
Clamped(x) ==
    IF x.num > x.den THEN F(1, 1) ELSE IF x.num < -x.den THEN F(-1, 1) ELSE x

\* the factor the clamped sample is scaled by
Scale(c) == IF c.num < 0 THEN 32768 ELSE 32767

Abs(n) == IF n < 0 THEN -n ELSE n

Encoded == codecPc = "wav"

\* the signed 16-bit stream sample number k (from 0) of the bytes given to the decoder
StreamSample(k) ==
    IF data[2 * k + 2] >= 128
    THEN data[2 * k + 1] + 256 * data[2 * k + 2] - 65536
    ELSE data[2 * k + 1] + 256 * data[2 * k + 2]

-----------------------------------------------------------------------------
(* C1: for every AudioBuffer given to encodeWAV, with dataLength = 2 * (number *)
(* of emitted samples), the output is 44 + dataLength bytes long, the uint32   *)
(* at offset 4 is 36 + dataLength, the uint32 at offset 40 is dataLength, and  *)
(* the header gives back the channel count (uint16 at 22) and the sample rate  *)
(* (uint32 at 24) of the buffer.                                               *)
C1_WavLengthAndHeader ==
    Encoded =>
        LET dataLength == 2 * EmittedCount(audioBuffer)
        IN  /\ Len(wavBytes) = 44 + dataLength
            /\ ReadUint32(wavBytes, 4) = 36 + dataLength
            /\ ReadUint32(wavBytes, 40) = dataLength
            /\ ReadUint16(wavBytes, 22) = audioBuffer.numberOfChannels
            /\ ReadUint32(wavBytes, 24) = audioBuffer.sampleRate

C1_Witness ==
    /\ Encoded
    /\ audioBuffer.numberOfChannels = 3
    /\ audioBuffer.length >= 2
    /\ audioBuffer.sampleRate > 65535

(* C2 as stated: every sample written to the payload is the integer nearest to *)
(* c * 32768 (c < 0) or c * 32767 (otherwise), c the sample clamped to [-1, 1] *)
(* (a tie may go either way).                                                  *)
C2_RoundsToNearest ==
    Encoded =>
        \A i \in 0..(EmittedCount(audioBuffer) - 1) :
            LET c == Clamped(Emitted(audioBuffer, i))
                v == ReadInt16(wavBytes, 44 + 2 * i)
            IN  2 * Abs(c.num * Scale(c) - v * c.den) <= c.den

(* C2 as amended: every sample written to the payload is c * 32768 (c < 0) or  *)
(* c * 32767 (otherwise) truncated toward zero, c the sample clamped to        *)
(* [-1, 1].                                                                    *)
C2_TruncatesTowardZero ==
    Encoded =>
        \A i \in 0..(EmittedCount(audioBuffer) - 1) :
            LET c == Clamped(Emitted(audioBuffer, i))
                v == ReadInt16(wavBytes, 44 + 2 * i)
                x == c.num * Scale(c)
            IN  IF c.num >= 0
                THEN v * c.den <= x /\ x < (v + 1) * c.den
                ELSE (v - 1) * c.den < x /\ x <= v * c.den

\* a positive sample whose scaled value has a fractional part above one half
C2_Witness ==
    /\ Encoded
    /\ \E i \in 0..(EmittedCount(audioBuffer) - 1) :
          LET c == Clamped(Emitted(audioBuffer, i))
          IN  /\ c.num > 0
              /\ 2 * ((c.num * 32767) % c.den) > c.den

(* C3: a sample of amplitude 1.0 or above is written as 32767, a sample of     *)
(* amplitude -1.0 or below as -32768, and no written sample has the sign       *)
(* opposite to its input (no wrap-around).                                     *)
C3_FullScaleAndNoWrap ==
    Encoded =>
        \A i \in 0..(EmittedCount(audioBuffer) - 1) :
            LET x == Emitted(audioBuffer, i)
                v == ReadInt16(wavBytes, 44 + 2 * i)
            IN  /\ x.num >= x.den => v = 32767
                /\ x.num <= -x.den => v = -32768
                /\ x.num > 0 => v >= 0
                /\ x.num < 0 => v <= 0

\* samples exactly 1.0, above 1.0 and below -1.0 in one encoded buffer
C3_Witness ==
    /\ Encoded
    /\ \E i, j, k \in 0..(EmittedCount(audioBuffer) - 1) :
          /\ Emitted(audioBuffer, i) = F(1, 1)
          /\ Emitted(audioBuffer, j) = F(2, 1)
          /\ Emitted(audioBuffer, k) = F(-3, 2)

C5_RangeOpenBelow ==
    codecPc = "decoded" =>
        \A c \in 1..Len(audioBuffer.channels) :
            \A i \in 1..Len(audioBuffer.channels[c]) :
                LET x == audioBuffer.channels[c][i]
                IN  -x.den < x.num /\ x.num <= x.den

(* C5 as amended: every sample the PCM interpreter writes into the AudioBuffer *)
(* is at least -1.0 and strictly less than 1.0.                                *)
C5_RangeOpenAbove ==
    codecPc = "decoded" =>
        \A c \in 1..Len(audioBuffer.channels) :
            \A i \in 1..Len(audioBuffer.channels[c]) :
                LET x == audioBuffer.channels[c][i]
                IN  x.den > 0 /\ -x.den <= x.num /\ x.num < x.den

\* the raw samples -32768 and 32767 both decoded
C5_Witness ==
    /\ codecPc = "decoded"
    /\ \E c, d \in 1..Len(audioBuffer.channels) :
          \E i \in 1..Len(audioBuffer.channels[c]), j \in 1..Len(audioBuffer.channels[d]) :
              /\ audioBuffer.channels[c][i] = F(-32768, 32768)
              /\ audioBuffer.channels[d][j] = F(32767, 32768)

-----------------------------------------------------------------------------
(* The component: what is playing, which URLs are live, when a handler runs *)

Playing == started \ stopped

LiveUrls == created \ revoked

NoHandlerRunning == genPc = "idle" /\ selectPending = 0

\* a step in which handleGenerateSpeech runs to its end
GenerationFinishes == genPc # "idle" /\ genPc' = "idle"

\* the button is disabled for as long as a request runs
OneRequestAtATime == (mounted /\ genPc # "idle") => loading

(* C6 as stated: when the decoded bytes have odd length the PCM interpreter    *)
(* drops the last byte and produces floor(length / 2) samples, and the         *)
(* generation completes normally: playback started, WAV produced.              *)
C6_OddByteDropped ==
    (genPc = "idle" /\ Len(data) % 2 = 1) =>
        /\ codecPc = "wav"
        /\ audioBuffer.length = Len(data) \div 2
        /\ sourceNodeRef \in Playing
        /\ Len(wavBytes) = 44 + 2 * (Len(data) \div 2)

(* C7: when a generation request ends without a WAV (the remote call, the      *)
(* base64 decoding or the PCM interpretation failed) and the component is      *)
(* mounted, the error is set, no download URL is set or live, no WAV bytes     *)
(* exist and no playback source is left playing; when it ends with a WAV, the  *)
(* whole container exists, its URL is the download URL and no error is set.    *)
C7_AllOrNothing ==
    [][(GenerationFinishes /\ mounted') =>
          IF codecPc' = "wav"
          THEN /\ error' = NoError
               /\ Len(wavBytes') >= 44
               /\ downloadUrl' \in LiveUrls'
               /\ sourceNodeRef' \in Playing'
          ELSE /\ error' # NoError
               /\ downloadUrl' = 0
               /\ LiveUrls' = {}
               /\ wavBytes' = << >>
               /\ sourceNodeRef' = 0
               /\ Playing' = {}]_vars

\* a request failed in the PCM interpreter after an earlier one had succeeded
C7_Witness ==
    /\ mounted
    /\ genPc = "idle"
    /\ codecPc = "RangeError"
    /\ error = "RangeError"
    /\ stopped # {}
    /\ revoked # {}

(* C8: at most one playback source is started and not stopped at any time.     *)
C8_OnePlaybackSource == Cardinality(Playing) <= 1

\* a later generation's source plays after an earlier one was stopped
C8_Witness ==
    /\ stopped # {}
    /\ sourceNodeRef \in Playing
    /\ sourceNodeRef \notin stopped

(* C9 as stated: the downloadUrl in the component's state is an object URL     *)
(* that was created and is not revoked, and every other object URL ever        *)
(* created has been revoked (all of them once the component has unmounted).    *)
C9_UrlLifecycle ==
    /\ (mounted /\ downloadUrl # 0) => downloadUrl \in LiveUrls
    /\ LiveUrls \subseteq (IF mounted /\ downloadUrl # 0 THEN {downloadUrl} ELSE {})

(* C10: while the component is mounted and no handler is running, the error    *)
(* and the download URL are never both set.                                    *)
C10_ErrorExcludesDownload ==
    (mounted /\ NoHandlerRunning) => ~(error # NoError /\ downloadUrl # 0)

\* an error shown after an earlier generation had produced a download URL
C10_Witness ==
    /\ mounted
    /\ NoHandlerRunning
    /\ error # NoError
    /\ created # {}
    /\ downloadUrl = 0

\* a step in which handleGenerateSpeech issues the remote generateSpeech call
RemoteCallIssued == genPc = "idle" /\ genPc' = "awaitRemote"

\* a step in which the handler ends after the remote call failed with "Requested
\* entity was not found." in a host that provides openSelectKey
KeyFailureFinishes == genPc = "awaitOpenSelectKey" /\ genPc' = "idle"

\* the remote call is issued only with a key selected, and a key failure leaves
\* the mounted component with no key selected, the error set and loading off
C11_GateAndReset ==
    [][/\ RemoteCallIssued => hasApiKeySelected
       /\ (KeyFailureFinishes /\ mounted') =>
             (~hasApiKeySelected' /\ error' = MsgKeyInvalid /\ ~loading')]_vars

(* C11 as stated: the remote call is never issued while hasApiKeySelected is   *)
(* false; when the remote call fails with "Requested entity was not found." in *)
(* a host that provides key selection, the handler ends with hasApiKeySelected *)
(* false, the error set and loading false; and from then on the key counts as  *)
(* selected again (so that a remote call can follow) only when a               *)
(* handleSelectApiKey call succeeds.                                           *)
C11_KeyGating ==
    [][/\ RemoteCallIssued => hasApiKeySelected
       /\ (KeyFailureFinishes /\ mounted') =>
             (~hasApiKeySelected' /\ error' = MsgKeyInvalid /\ ~loading')
       /\ (mounted /\ error = MsgKeyInvalid /\ ~hasApiKeySelected /\ hasApiKeySelected')
             => selectPending' < selectPending]_vars

====
